---- MODULE Spec2Model ----
(***************************************************************************)
(* DEMV (Debiaser for Multiple Variables): src/demv.py.                    *)
(*                                                                         *)
(* balance_set adds or removes rows of one (combination, label) group      *)
(* until its disparity w_exp / w_obs is 1 or the cap is reached; sample    *)
(* recurses over the protected attributes, balances every group at the     *)
(* leaves and reassembles the groups at the root; DEMV.fit_transform calls *)
(* sample and keeps the disparities and the iteration count.               *)
(*                                                                         *)
(* A DataFrame is a sequence of rows; a row carries its index label idx    *)
(* (the labels of an input dataset are its row positions, all distinct),   *)
(* its protected attributes a, its label y and one other feature f.        *)
(* A Python float that is a quotient of row counts is kept as an exact     *)
(* fraction <<numerator, denominator>>; round() follows the IEEE double    *)
(* (see FloatTieFlips).                                                    *)
(***************************************************************************)
EXTENDS Integers, Sequences, FiniteSets, TLC

\* ---------------------------------------------------------------- bounds

\* Largest number of rows of an enumerated input dataset.
MaxRows == 5

\* Largest non-negative cap (stop) a DEMV instance is built with.
MaxStop == 2

\* Largest number of fit_transform calls on the one DEMV instance.
MaxCalls == 2

\* Values a protected attribute takes in an input dataset.
AttrVals == {0, 1}

\* Values the label takes in an input dataset.
LabelVals == {0, 1}

\* Numbers of protected attributes passed to fit_transform.
AttrCounts == {1, 2}

\* round_level of a DEMV instance: <<>> is None, <<t>> is the number t.
Tols == {<<>>, <<0>>, <<1>>, <<2>>}

\* stop of a DEMV instance: -1 is the default (no cap).
Stops == -1 .. MaxStop

\* ------------------------------------------------------------ arithmetic

Max2(x, y) == IF x >= y THEN x ELSE y

RECURSIVE Pow(_, _)
Pow(b, e) == IF e = 0 THEN 1 ELSE b * Pow(b, e - 1)

RECURSIVE Gcd(_, _)
Gcd(x, y) == IF y = 0 THEN x ELSE Gcd(y, x % y)

\* The fraction n / d (d > 0) in lowest terms.
Frac(n, d) == LET g == Gcd(n, d) IN <<n \div g, d \div g>>

One == <<1, 1>>

\* <<a, b, N, g, t>>: the inputs (a/N)*(b/N) / (g/N), for N <= 12 and g <= N+1,
\* whose exact quotient lies halfway between two multiples of 10^-t and whose
\* double does not round to the even one: the double of the quotient is not
\* the quotient, and Python's round() rounds the double.  Every other input
\* of that range rounds as its exact quotient does (half to even).
FloatTieFlips ==
  {<<1,1,4,5,1>>, <<1,3,4,5,1>>, <<3,1,4,5,1>>, <<3,3,4,5,1>>, <<1,1,5,4,1>>, <<1,3,5,4,1>>,
     <<3,1,5,4,1>>, <<3,5,5,4,1>>, <<5,3,5,4,1>>, <<3,5,6,2,1>>, <<3,5,6,4,2>>, <<5,3,6,2,1>>,
     <<5,3,6,4,2>>, <<5,6,6,4,1>>, <<6,5,6,4,1>>, <<1,1,8,5,2>>, <<1,2,8,5,1>>, <<1,3,8,5,2>>,
     <<1,6,8,5,1>>, <<1,7,8,5,2>>, <<2,1,8,5,1>>, <<2,3,8,5,1>>, <<2,7,8,5,1>>, <<3,1,8,5,2>>,
     <<3,2,8,5,1>>, <<3,3,8,5,2>>, <<3,6,8,5,1>>, <<3,7,8,5,2>>, <<6,1,8,5,1>>, <<6,3,8,5,1>>,
     <<6,7,8,5,1>>, <<7,1,8,5,2>>, <<7,2,8,5,1>>, <<7,3,8,5,2>>, <<7,6,8,5,1>>, <<7,7,8,5,2>>,
     <<5,9,9,4,1>>, <<5,9,9,8,2>>, <<9,5,9,4,1>>, <<9,5,9,8,2>>, <<1,1,10,2,1>>, <<1,1,10,4,2>>,
     <<1,2,10,4,1>>, <<1,2,10,8,2>>, <<1,3,10,2,1>>, <<1,3,10,4,2>>, <<1,3,10,6,1>>, <<1,4,10,8,1>>,
     <<1,5,10,10,1>>, <<1,6,10,4,1>>, <<1,6,10,8,2>>, <<1,7,10,2,1>>, <<1,7,10,4,2>>, <<1,9,10,2,1>>,
     <<1,9,10,4,2>>, <<2,1,10,4,1>>, <<2,1,10,8,2>>, <<2,2,10,8,1>>, <<2,3,10,4,1>>, <<2,3,10,8,2>>,
     <<2,6,10,8,1>>, <<2,7,10,4,1>>, <<2,7,10,8,2>>, <<2,9,10,4,1>>, <<2,9,10,8,2>>, <<3,1,10,2,1>>,
     <<3,1,10,4,2>>, <<3,1,10,6,1>>, <<3,2,10,4,1>>, <<3,2,10,8,2>>, <<3,3,10,6,1>>, <<3,4,10,8,1>>,
     <<3,5,10,2,1>>, <<3,5,10,4,2>>, <<3,5,10,10,1>>, <<3,7,10,6,1>>, <<3,9,10,6,1>>, <<3,10,10,4,1>>,
     <<3,10,10,8,2>>, <<4,1,10,8,1>>, <<4,3,10,8,1>>, <<4,7,10,8,1>>, <<4,9,10,8,1>>, <<5,1,10,10,1>>,
     <<5,3,10,2,1>>, <<5,3,10,4,2>>, <<5,3,10,10,1>>, <<5,6,10,4,1>>, <<5,6,10,8,2>>, <<5,7,10,2,1>>,
     <<5,7,10,4,2>>, <<5,7,10,10,1>>, <<5,9,10,10,1>>, <<6,1,10,4,1>>, <<6,1,10,8,2>>, <<6,2,10,8,1>>,
     <<6,5,10,4,1>>, <<6,5,10,8,2>>, <<6,10,10,8,1>>, <<7,1,10,2,1>>, <<7,1,10,4,2>>, <<7,2,10,4,1>>,
     <<7,2,10,8,2>>, <<7,3,10,6,1>>, <<7,4,10,8,1>>, <<7,5,10,2,1>>, <<7,5,10,4,2>>, <<7,5,10,10,1>>,
     <<7,9,10,2,1>>, <<7,9,10,4,2>>, <<7,9,10,6,1>>, <<7,10,10,4,1>>, <<7,10,10,8,2>>, <<9,1,10,2,1>>,
     <<9,1,10,4,2>>, <<9,2,10,4,1>>, <<9,2,10,8,2>>, <<9,3,10,6,1>>, <<9,4,10,8,1>>, <<9,5,10,10,1>>,
     <<9,7,10,2,1>>, <<9,7,10,4,2>>, <<9,7,10,6,1>>, <<10,3,10,4,1>>, <<10,3,10,8,2>>, <<10,6,10,8,1>>,
     <<10,7,10,4,1>>, <<10,7,10,8,2>>, <<3,11,11,4,1>>, <<3,11,11,8,2>>, <<6,11,11,8,1>>, <<11,3,11,4,1>>,
     <<11,3,11,8,2>>, <<11,6,11,8,1>>, <<1,9,12,5,1>>, <<1,9,12,10,2>>, <<2,9,12,10,1>>, <<3,3,12,5,1>>,
     <<3,3,12,10,2>>, <<3,5,12,1,1>>, <<3,5,12,2,2>>, <<3,6,12,10,1>>, <<3,10,12,2,1>>, <<3,10,12,4,2>>,
     <<3,11,12,5,1>>, <<3,11,12,10,2>>, <<5,3,12,1,1>>, <<5,3,12,2,2>>, <<5,6,12,2,1>>, <<5,6,12,4,2>>,
     <<5,12,12,4,1>>, <<5,12,12,8,2>>, <<6,3,12,10,1>>, <<6,5,12,2,1>>, <<6,5,12,4,2>>, <<6,10,12,4,1>>,
     <<6,10,12,8,2>>, <<6,11,12,10,1>>, <<7,9,12,5,1>>, <<7,9,12,10,2>>, <<9,1,12,5,1>>, <<9,1,12,10,2>>,
     <<9,2,12,10,1>>, <<9,7,12,5,1>>, <<9,7,12,10,2>>, <<9,9,12,5,1>>, <<9,9,12,10,2>>, <<10,3,12,2,1>>,
     <<10,3,12,4,2>>, <<10,6,12,4,1>>, <<10,6,12,8,2>>, <<10,12,12,8,1>>, <<11,3,12,5,1>>, <<11,3,12,10,2>>,
     <<11,6,12,10,1>>, <<12,5,12,4,1>>, <<12,5,12,8,2>>, <<12,10,12,8,1>>}

\* The rows of a permutation of range(n) drawn by numpy's RandomState(2), for
\* n = 0 .. 16 (row n + 1): what DataFrame.sample(frac=1, random_state=2) takes.
Perm2 ==
  <<<<>>,
     <<0>>,
     <<1, 0>>,
     <<2, 1, 0>>,
     <<2, 3, 1, 0>>,
     <<2, 4, 1, 3, 0>>,
     <<4, 1, 3, 2, 5, 0>>,
     <<4, 1, 3, 2, 6, 5, 0>>,
     <<4, 1, 6, 2, 3, 7, 5, 0>>,
     <<4, 1, 6, 2, 3, 0, 5, 7, 8>>,
     <<4, 1, 5, 0, 7, 2, 3, 6, 9, 8>>,
     <<4, 1, 9, 5, 0, 7, 2, 3, 6, 10, 8>>,
     <<9, 5, 4, 7, 1, 10, 0, 3, 2, 6, 11, 8>>,
     <<4, 0, 10, 5, 3, 1, 9, 7, 11, 2, 6, 12, 8>>,
     <<11, 4, 5, 0, 9, 3, 1, 10, 7, 12, 2, 6, 13, 8>>,
     <<11, 4, 5, 0, 9, 3, 1, 10, 7, 12, 2, 6, 14, 13, 8>>,
     <<12, 4, 5, 0, 9, 3, 1, 10, 7, 14, 2, 11, 6, 15, 13, 8>>>>

\* ---------------------------------------------------------------- weights

\* w_exp is [ca, cl, n], the product (ca / n) * (cl / n) of sample's line 32;
\* w_obs is [g, n], the quotient g / n.  w_exp / w_obs as a fraction of integers.
RatioNum(w_exp, w_obs) == w_exp.ca * w_exp.cl * w_obs.n

RatioDen(w_exp, w_obs) == w_exp.n * w_exp.n * w_obs.g

\* Python's truth value of round_level: None and 0 are false.
Truthy(rl) == rl # <<>> /\ rl[1] # 0

\* round(w_exp / w_obs, t), t in 1 .. 2.
Round(w_exp, w_obs, t) ==
  LET s    == RatioNum(w_exp, w_obs) * Pow(10, t)
      den  == RatioDen(w_exp, w_obs)
      fl   == s \div den
      rem2 == 2 * (s % den)
      flip == <<w_exp.ca, w_exp.cl, w_exp.n, w_obs.g, t>> \in FloatTieFlips
      up   == rem2 > den \/ (rem2 = den /\ ((fl % 2 = 1) # flip))
  IN  Frac(fl + (IF up THEN 1 ELSE 0), Pow(10, t))

\* The disparity taken the other way round: w_obs / w_exp, not rounded.
DispInverse(w_exp, w_obs, rl) ==
  Frac(RatioDen(w_exp, w_obs), RatioNum(w_exp, w_obs))

\* disp of balance_set (lines 6 and 15-16).
Disp(w_exp, w_obs, rl) ==
  IF Truthy(rl) THEN Round(w_exp, w_obs, rl[1])
  ELSE Frac(RatioNum(w_exp, w_obs), RatioDen(w_exp, w_obs))

\* The loop that goes on only while the group is under-represented.
LoopCondAbove(disp, i, k) == disp[1] > disp[2] /\ i # k

\* The loop with "i < k" for "i != k": the default cap -1 then stops it at once.
LoopCondLess(disp, i, k) == disp # One /\ i < k

\* The loop without its cap.
LoopCondNoCap(disp, i, k) == disp # One

\* The condition of balance_set's while loop.
LoopCond(disp, i, k) == disp # One /\ i # k

\* --------------------------------------------------------------- datasets

Feature(p) == 100 + p

Row(p, a, y) == [idx |-> p, a |-> a, y |-> y, f |-> Feature(p)]

NCells(k) == Pow(Cardinality(AttrVals), k) * Cardinality(LabelVals)

\* A cell (attribute values, label value) from its number c in 0 .. NCells(k)-1.
CellAttrs(c, k) ==
  [j \in 1 .. k |->
     (c \div (Cardinality(LabelVals) * Pow(Cardinality(AttrVals), k - j)))
       % Cardinality(AttrVals)]

CellLabel(c) == c % Cardinality(LabelVals)

FromCodes(s, k) == [p \in DOMAIN s |-> Row(p, CellAttrs(s[p], k), CellLabel(s[p]))]

\* The non-decreasing sequences of n cell numbers, each in 0 .. c.
RECURSIVE SortedCodes(_, _)
SortedCodes(n, c) ==
  IF n = 0 THEN {<<>>}
  ELSE UNION {{Append(s, x) : x \in (IF s = <<>> THEN 0 ELSE s[Len(s)]) .. c} :
                s \in SortedCodes(n - 1, c)}

\* The input datasets of up to MaxRows rows with k protected attributes, up
\* to the order of their rows: the rows of a dataset are listed by cell.
Datasets(k) ==
  UNION {{FromCodes(s, k) : s \in SortedCodes(n, NCells(k) - 1)} : n \in 0 .. MaxRows}

\* Three larger datasets whose groups all have a whole number of rows as
\* their target: one attribute and 1, 3, 3, 1 rows in the four cells; one
\* attribute and 1, 5, 5, 1 rows; two attributes and 1, 1, 1, 1, 1, 3, 3, 1
\* rows in the eight cells.
Larger ==
  {[k |-> 1, d |-> FromCodes(<<0, 1, 1, 1, 2, 2, 2, 3>>, 1)],
   [k |-> 1, d |-> FromCodes(<<0, 1, 1, 1, 1, 1, 2, 2, 2, 2, 2, 3>>, 1)],
   [k |-> 2, d |-> FromCodes(<<0, 1, 2, 3, 4, 5, 5, 5, 6, 6, 6, 7>>, 2)]}

\* The arguments of a fit_transform call: k attributes and the dataset d.
Inputs ==
  UNION {{[k |-> k, d |-> d] : d \in Datasets(k)} : k \in AttrCounts} \cup Larger

RECURSIVE SortedSeq(_)
SortedSeq(S) ==
  IF S = {} THEN <<>>
  ELSE LET m == CHOOSE x \in S : \A y \in S : x <= y
       IN  <<m>> \o SortedSeq(S \ {m})

\* np.unique(d[label]): the label values of d, ascending.
Labels(d) == SortedSeq({d[p].y : p \in DOMAIN d})

\* limit of sample (lines 50-52).
Limit(d, vars) ==
  LET RECURSIVE Prod(_)
      Prod(j) == IF j > Len(vars) THEN 1
                 ELSE Cardinality({d[p].a[vars[j]] : p \in DOMAIN d}) * Prod(j + 1)
  IN  Prod(1)

RECURSIVE Concat(_)
Concat(G) == IF G = <<>> THEN <<>> ELSE Head(G) \o Concat(Tail(G))

\* DataFrame.sample(frac=1, random_state=2): the rows in the order of Perm2.
Shuffle(df) == [p \in 1 .. Len(df) |-> df[Perm2[Len(df) + 1][p] + 1]]

\* The reassembly with the popped group dropped.
ReassembleRest(G) == Shuffle(Concat(SubSeq(G, 1, Len(G) - 1)))

\* G.pop().append([g for g in G]).sample(frac=1, random_state=2), G not empty.
Reassemble(G) == Shuffle(G[Len(G)] \o Concat(SubSeq(G, 1, Len(G) - 1)))

\* ------------------------------------------------------------------ state

VARIABLES
  dataset,      \* the dataset passed to fit_transform
  s_vars,       \* protected_attrs: the attribute columns, in order
  round_level,  \* DEMV.round_level
  stop,         \* DEMV.stop
  iter,         \* DEMV.iter
  disparities,  \* DEMV.disparities: <<>> before it is set, <<value>> after
  stack,        \* the running invocations of sample, the innermost last
  bal,          \* the running invocation of balance_set: <<>> or <<its locals>>
  result,       \* how the last fit_transform call ended: <<>> while it runs
  calls,        \* fit_transform calls made so far
  hist,         \* what each balance_set call of this fit_transform call returned
  log,          \* how each finished fit_transform call ended, the first first
  rng,          \* numpy's global generator: whether the caller seeded it
                \* before the call, and the numbers drawn from it since
  stream,       \* the numbers the generator yields after np.random.seed(s),
                \* as far as they have been drawn
  first         \* the result of the seeded call before this one

vars == <<dataset, s_vars, round_level, stop, iter, disparities, stack, bal,
          result, calls, hist, log, rng, stream, first>>

env == <<rng, stream, first>>

self == <<round_level, stop, iter, disparities>>

Init ==
  /\ dataset = <<>>
  /\ s_vars = <<>>
  /\ round_level \in Tols
  /\ stop \in Stops
  /\ iter = 0
  /\ disparities = <<>>
  /\ stack = <<>>
  /\ bal = <<>>
  /\ result = <<>>
  /\ calls = 0
  /\ hist = <<>>
  /\ log = <<>>
  /\ rng = [seeded |-> FALSE, pos |-> 0]
  /\ stream = <<>>
  /\ first = <<>>

\* ----------------------------------------------------------------- sample

\* The locals of an invocation of sample (lines 25-28): depth i, the mask cond
\* (the positions of the rows it selects) with the values that built it, the
\* list G, disparities, iter, the results of the two recursive calls and the
\* place the invocation is at.
Frame(i, n, mask, path, G) ==
  [i |-> i, mask |-> mask, path |-> path, G |-> G, disparities |-> <<>>,
   iter |-> 0, li |-> 1, G1 |-> <<>>, k1 |-> 0, G2 |-> <<>>, k2 |-> 0,
   pc |-> IF i = n THEN "leaf" ELSE "call1"]

Top == stack[Len(stack)]

Rest == SubSeq(stack, 1, Len(stack) - 1)

Ok(df) == <<[kind |-> "ok", err |-> "", line |-> 122, df |-> df]>>

\* The exception e raised at line ln of src/demv.py.
Error(e, ln) == <<[kind |-> "error", err |-> e, line |-> ln, df |-> <<>>]>>

\* The most steps a balance_set call of this fit_transform call has taken.
MaxSteps ==
  IF hist = <<>> THEN 0
  ELSE CHOOSE m \in {hist[j].i : j \in DOMAIN hist} : \A j \in DOMAIN hist : hist[j].i <= m

\* The entry of log for a call that ends now.
Ended(kind) == [kind |-> kind, steps |-> MaxSteps]

\* An exception that leaves behind what the call had got to: the count of
\* the groups balanced so far, and their traces.
RaisePartial(e, ln) ==
  /\ stack' = <<>>
  /\ bal' = <<>>
  /\ result' = Error(e, ln)
  /\ log' = Append(log, Ended("error"))
  /\ iter' = MaxSteps
  /\ disparities' = <<[j \in DOMAIN hist |-> hist[j].disparity]>>

\* An exception leaves every invocation and fit_transform.
Raise(e, ln) ==
  /\ stack' = <<>>
  /\ bal' = <<>>
  /\ result' = Error(e, ln)
  /\ log' = Append(log, Ended("error"))
  /\ UNCHANGED <<iter, disparities>>

\* DEMV.iter as the largest count of all the calls so far.
SelfIterMax(it) == Max2(iter, it)

\* What fit_transform keeps as DEMV.iter (line 121).
SelfIter(it) == it

\* The innermost invocation returns rv: a pair (G, iter) or a triple
\* (DataFrame, disparities, iter).  Its caller unpacks a pair (lines 43-46);
\* fit_transform unpacks a triple (lines 118-122).
Return(rv) ==
  IF Len(stack) = 1
  THEN IF rv.kind = "triple"
       THEN /\ stack' = <<>>
            /\ bal' = <<>>
            /\ disparities' = <<rv.disparities>>
            /\ iter' = SelfIter(rv.iter)
            /\ result' = Ok(rv.df)
            /\ log' = Append(log, Ended("ok"))
       ELSE Raise("ValueError", 118)
  ELSE IF rv.kind = "triple"
       THEN Raise("ValueError", IF stack[Len(stack) - 1].pc = "call1" THEN 43 ELSE 45)
       ELSE LET f == stack[Len(stack) - 1]
                g == IF f.pc = "call1"
                     THEN [f EXCEPT !.G1 = rv.G, !.k1 = rv.iter, !.pc = "call2"]
                     ELSE [f EXCEPT !.G2 = rv.G, !.k2 = rv.iter, !.pc = "merge"]
            IN  /\ stack' = Append(SubSeq(stack, 1, Len(stack) - 2), g)
                /\ UNCHANGED <<bal, result, iter, disparities, log>>

Pair(G, it) == [kind |-> "pair", G |-> G, iter |-> it, df |-> <<>>, disparities |-> <<>>]

Triple(df, disps, it) ==
  [kind |-> "triple", G |-> <<>>, iter |-> it, df |-> df, disparities |-> disps]

\* A list that still holds what the call before left in it: all its groups
\* but the popped one.
RootGKept ==
  IF result # <<>> /\ result[1].kind = "ok"
  THEN [j \in 1 .. Len(hist) - 1 |-> hist[j].df]
  ELSE <<>>

\* The list fit_transform passes as G: a new empty list (line 119).
RootG == <<>>

\* fit_transform(dataset, protected_attrs, label_name) calls sample with
\* i = 0, G = [] and cond = True (lines 118-119, 25-28).
Call(inp) ==
  /\ stack = <<>>
  /\ dataset' = inp.d
  /\ s_vars' = [j \in 1 .. inp.k |-> j]
  /\ stack' = <<Frame(0, inp.k, DOMAIN inp.d, <<>>, RootG)>>
  /\ bal' = <<>>
  /\ result' = <<>>
  /\ calls' = calls + 1
  /\ hist' = <<>>
  /\ UNCHANGED <<self, log, stream>>

\* A call with the global generator in a state of its own.
FitTransform(inp) ==
  /\ Call(inp)
  /\ rng' = [seeded |-> FALSE, pos |-> 0]
  /\ first' = <<>>

\* np.random.seed(s) and then the call: the generator yields stream again.
SeededFitTransform(inp) ==
  /\ Call(inp)
  /\ rng' = [seeded |-> TRUE, pos |-> 0]
  /\ first' = result

\* A recursive call of sample (lines 41-46): the first with cond & (d[s] == 0),
\* the second with cond & (d[s] == 1), each with a copy of G.
Descend ==
  /\ stack # <<>>
  /\ Top.pc \in {"call1", "call2"}
  /\ LET s == s_vars[Top.i + 1]
         v == IF Top.pc = "call1" THEN 0 ELSE 1
         mask == {p \in Top.mask : dataset[p].a[s] = v}
     IN  stack' = Append(stack,
                    Frame(Top.i + 1, Len(s_vars), mask, Append(Top.path, v), Top.G))
  /\ UNCHANGED <<dataset, s_vars, self, bal, result, calls, hist, log, env>>

\* The merge with G1 added twice and G2 never.
MergedTwice(f) == f.G \o f.G1 \o f.G1

\* G after G += G1 and G += G2 (lines 47-48).
Merged(f) == f.G \o f.G1 \o f.G2

\* After the second recursive call (lines 47-56).
Merge ==
  /\ stack # <<>>
  /\ Top.pc = "merge"
  /\ LET G == Merged(Top)
         it == Max2(Top.iter, Max2(Top.k1, Top.k2))
     IN  IF Len(G) = Limit(dataset, s_vars) * Len(Labels(dataset))
         THEN IF G = <<>> THEN Raise("IndexError", 54)
              ELSE Return(Triple(Reassemble(G), Top.disparities, it))
         ELSE Return(Pair(G, it))
  /\ UNCHANGED <<dataset, s_vars, round_level, stop, calls, hist, env>>

\* ------------------------------------------------------------ balance_set

\* The locals of an invocation of balance_set after line 8, for label l.
Balance(w_exp, w_obs, df, l) ==
  LET disp == Disp(w_exp, w_obs, round_level)
  IN  [w_exp |-> w_exp, w_obs |-> w_obs, df |-> df, disp |-> disp,
       disparity |-> <<disp>>, i |-> 0, l |-> l]

\* An oversampling that makes up a row: the drawn row with another feature.
OversampleSynth(df, p) == Append(df, [df[p] EXCEPT !.f = 0])

\* df.append(df.sample()): the row at position p again, index label included.
Oversample(df, p) == Append(df, df[p])

\* df.drop(df.sample().index, axis=0): without the rows that carry the index
\* label of the row at position p.
Undersample(df, p) == SelectSeq(df, LAMBDA r : r.idx # df[p].idx)

\* Lines 10-13: the group after one pass of the loop, df.sample() drawing
\* the row at position p.
Resample(b, p) ==
  IF RatioNum(b.w_exp, b.w_obs) > RatioDen(b.w_exp, b.w_obs)
  THEN Oversample(b.df, p)
  ELSE IF RatioNum(b.w_exp, b.w_obs) < RatioDen(b.w_exp, b.w_obs)
       THEN Undersample(b.df, p)
       ELSE b.df

\* w_exp taken from the dataset as rebalanced so far: the rows of d whose
\* group is not balanced yet, and the rows of the balanced groups.
WExpRebalanced(d, mask, l) ==
  LET open == SelectSeq(d, LAMBDA r :
                \A j \in DOMAIN hist : ~(r.a = hist[j].path /\ r.y = hist[j].l))
      r == open \o Concat([j \in DOMAIN hist |-> hist[j].df])
  IN  [ca |-> Len(SelectSeq(r, LAMBDA x : x.idx \in mask)),
       cl |-> Len(SelectSeq(r, LAMBDA x : x.y = l)),
       n |-> Len(r)]

\* w_exp of line 32, (len(d[cond]) / len(d)) * (len(d[d[label] == l]) / len(d)),
\* as its three counts; mask holds the positions of the rows cond selects.
WExp(d, mask, l) ==
  [ca |-> Cardinality(mask),
   cl |-> Cardinality({p \in DOMAIN d : d[p].y = l}),
   n |-> Len(d)]

\* The next label value of a leaf invocation (lines 30-35) and the start of
\* balance_set on its group (lines 6-8).  A group without rows has
\* w_obs = 0.0, and line 6 divides by it.
LeafNext ==
  /\ stack # <<>>
  /\ Top.pc = "leaf"
  /\ bal = <<>>
  /\ Top.li <= Len(Labels(dataset))
  /\ LET l == Labels(dataset)[Top.li]
         g == SelectSeq(dataset, LAMBDA r : r.idx \in Top.mask /\ r.y = l)
         w_exp == WExp(dataset, Top.mask, l)
         w_obs == [g |-> Len(g), n |-> Len(dataset)]
     IN  IF Len(g) = 0
         THEN Raise("ZeroDivisionError", 6)
         ELSE /\ bal' = <<Balance(w_exp, w_obs, g, l)>>
              /\ UNCHANGED <<stack, result, iter, disparities, log>>
  /\ UNCHANGED <<dataset, s_vars, round_level, stop, calls, hist, env>>

\* The positions df.sample() can draw from a group of n rows: any, unless the
\* generator was seeded and yields a number it has yielded before.
Sample(n) ==
  IF rng.seeded /\ rng.pos < Len(stream)
  THEN {(stream[rng.pos + 1] % n) + 1}
  ELSE 1 .. n

Draws == IF bal = <<>> THEN {} ELSE Sample(Len(bal[1].df))

\* The generator after the draw of position p.
Drawn(p) ==
  /\ rng' = [rng EXCEPT !.pos = IF rng.seeded THEN @ + 1 ELSE @]
  /\ stream' = IF rng.seeded /\ rng.pos >= Len(stream)
                THEN Append(stream, p - 1) ELSE stream
  /\ UNCHANGED first

\* One pass of the while loop (lines 9-20).  Line 16 divides by the new
\* w_obs, which is 0.0 when no row is left.
BalanceStep(p) ==
  /\ bal # <<>>
  /\ LoopCond(bal[1].disp, bal[1].i, stop)
  /\ LET b == bal[1]
         df == Resample(b, p)
         w_obs == [g |-> Len(df), n |-> Len(dataset)]
         disp == Disp(b.w_exp, w_obs, round_level)
     IN  IF Len(df) = 0
         THEN Raise("ZeroDivisionError", 16)
         ELSE /\ bal' = <<[b EXCEPT !.df = df, !.w_obs = w_obs, !.disp = disp,
                                    !.disparity = Append(@, disp), !.i = @ + 1]>>
              /\ UNCHANGED <<stack, result, iter, disparities, log>>
  /\ Drawn(p)
  /\ UNCHANGED <<dataset, s_vars, round_level, stop, calls, hist>>

\* balance_set returns (line 21) and the leaf keeps the result (lines 36-38).
BalanceReturn ==
  /\ bal # <<>>
  /\ ~LoopCond(bal[1].disp, bal[1].i, stop)
  /\ LET b == bal[1]
         f == [Top EXCEPT !.disparities = Append(@, b.disparity),
                          !.G = Append(@, b.df),
                          !.iter = Max2(@, b.i),
                          !.li = @ + 1]
     IN  /\ stack' = Append(Rest, f)
         /\ hist' = Append(hist, [path |-> Top.path, l |-> b.l, w_exp |-> b.w_exp,
                                  df |-> b.df, disparity |-> b.disparity, i |-> b.i])
  /\ bal' = <<>>
  /\ UNCHANGED <<dataset, s_vars, self, result, calls, log, env>>

\* A leaf invocation returns G and iter (line 39).
LeafReturn ==
  /\ stack # <<>>
  /\ Top.pc = "leaf"
  /\ bal = <<>>
  /\ Top.li > Len(Labels(dataset))
  /\ Return(Pair(Top.G, Top.iter))
  /\ UNCHANGED <<dataset, s_vars, round_level, stop, calls, hist, env>>

\* ---------------------------------------------------------- specification

\* The steps of a running fit_transform call.
Run ==
  \/ Descend
  \/ LeafNext
  \/ \E p \in Draws : BalanceStep(p)
  \/ BalanceReturn
  \/ LeafReturn
  \/ Merge

\* One fit_transform call on a new DEMV instance, on any input of Inputs.
Next ==
  \/ calls = 0 /\ \E inp \in Inputs : FitTransform(inp)
  \/ Run

Spec == Init /\ [][Next]_vars

\* The inputs of repeated calls: the larger datasets, and the datasets of
\* one attribute and at most MaxRows - 2 rows.
CallInputs == Larger \cup {inp \in Inputs : inp.k = 1 /\ Len(inp.d) + 2 <= MaxRows}

\* Up to MaxCalls fit_transform calls on one DEMV instance, one after the
\* other, as _demv_training of src/utils.py makes them.
NextCalls ==
  \/ calls < MaxCalls /\ \E inp \in CallInputs : FitTransform(inp)
  \/ Run

SpecCalls == Init /\ [][NextCalls]_vars

\* Two calls on the same input, np.random.seed(s) before each.
NextSeeded ==
  \/ calls = 0 /\ \E inp \in CallInputs : SeededFitTransform(inp)
  \/ /\ calls = 1
     /\ result # <<>>
     /\ SeededFitTransform([k |-> Len(s_vars), d |-> dataset])
  \/ Run

SpecSeeded == Init /\ [][NextSeeded]_vars

\* A dataset of one protected attribute whose rows are listed by cell, the
\* cell c holding the attribute value c \div 2 (0, 1 or 2) and the label c % 2.
WideFromCodes(s) ==
  [p \in DOMAIN s |-> Row(p, <<s[p] \div Cardinality(LabelVals)>>, CellLabel(s[p]))]

\* The inputs of up to MaxRows rows whose protected attribute takes the three
\* values 0, 1 and 2.
WideInputs ==
  {[k |-> 1, d |-> WideFromCodes(s)] :
     s \in {t \in UNION {SortedCodes(n, 3 * Cardinality(LabelVals) - 1) : n \in 3 .. MaxRows} :
              Cardinality({t[p] \div Cardinality(LabelVals) : p \in DOMAIN t}) = 3}}

\* One fit_transform call on a dataset with a three-valued attribute.
NextWide ==
  \/ calls = 0 /\ \E inp \in WideInputs : FitTransform(inp)
  \/ Run

SpecWide == Init /\ [][NextWide]_vars

\* The dataset of the example: 10 rows, one protected attribute with 6 rows
\* of A = 0 and 4 rows of A = 1, the label 1 in 3 of the rows of A = 0 and in
\* 1 of the rows of A = 1.
Example == [k |-> 1, d |-> FromCodes(<<0, 0, 0, 1, 1, 1, 2, 2, 2, 3>>, 1)]

\* One fit_transform call on the dataset of the example.
NextExample ==
  \/ calls = 0 /\ FitTransform(Example)
  \/ Run

SpecExample == Init /\ [][NextExample]_vars

\* ------------------------------------------------------------------ claims

Range(q) == {q[j] : j \in DOMAIN q}

\* The rows of two DataFrames are the same, each as many times.
SameRows(p, q) ==
  /\ Len(p) = Len(q)
  /\ \A r \in Range(p) \cup Range(q) :
       Cardinality({j \in DOMAIN p : p[j] = r}) = Cardinality({j \in DOMAIN q : q[j] = r})

\* The combinations of the values 0 and 1 of the protected attributes.
Combos == [1 .. Len(s_vars) -> {0, 1}]

\* The label values of the dataset.
LabelSet == {dataset[p].y : p \in DOMAIN dataset}

Returned == result # <<>> /\ result[1].kind = "ok"

Failed == result # <<>> /\ result[1].kind = "error"

\* The disparity of a returned group as the claim recomputes it.
Recomputed(h) ==
  LET w == [g |-> Len(h.df), n |-> Len(dataset)]
  IN  IF round_level = <<>>
      THEN Frac(RatioNum(h.w_exp, w), RatioDen(h.w_exp, w))
      ELSE Round(h.w_exp, w, round_level[1])

\* C1: whenever balance_set returns under the cap -1, the disparity of the
\* returned group, recomputed from its size and rounded to the tolerance, is 1
\* and is the last element of the returned trace.
C1_ReturnsConverged ==
  stop = -1 =>
    \A j \in DOMAIN hist :
      /\ Len(hist[j].df) > 0
      /\ Recomputed(hist[j]) = One
      /\ hist[j].disparity[Len(hist[j].disparity)] = Recomputed(hist[j])

\* A balance_set call under the cap -1 and tolerance 1 returned after two steps.
C1_Witness ==
  /\ stop = -1
  /\ round_level = <<1>>
  /\ \E j \in DOMAIN hist : hist[j].i >= 2

\* C2: with a tolerance and the cap -1, balance_set on a group that has rows
\* ends with the rounded disparity 1, whatever rows are drawn: it never ends
\* in an exception of the loop.
C2_EndsConverged ==
  (Truthy(round_level) /\ stop = -1 /\ Failed) => result[1].line # 16

\* C3: under a cap stop >= 0 no balance_set call takes more than stop steps,
\* and no iteration count kept by sample or by DEMV exceeds stop.
C3_CapRespected ==
  stop >= 0 =>
    /\ \A j \in DOMAIN hist : hist[j].i <= stop
    /\ bal # <<>> => bal[1].i <= stop
    /\ \A j \in DOMAIN stack :
         stack[j].iter <= stop /\ stack[j].k1 <= stop /\ stack[j].k2 <= stop
    /\ iter <= stop

\* fit_transform returned under the cap 2 with a group that took 2 steps.
C3_Witness == stop = 2 /\ Returned /\ iter = 2

\* No balancing step was taken in this fit_transform call.
NoSteps ==
  /\ \A j \in DOMAIN hist :
       hist[j].i = 0 /\ Len(hist[j].disparity) = 1
  /\ bal # <<>> => (bal[1].i = 0 /\ Len(bal[1].disparity) = 1)

\* The dataset has no row, or one of its 2^k x L groups has none.
HasEmptyGroup ==
  \/ dataset = <<>>
  \/ \E c \in Combos, l \in LabelSet :
       \A p \in DOMAIN dataset : ~(dataset[p].a = c /\ dataset[p].y = l)

\* C4 as stated: with stop = 0 every fit_transform call takes no balancing
\* step and returns a permutation of the input rows.
C4_PermutationOfEveryInput ==
  (stop = 0 /\ result # <<>>) =>
    (Returned /\ NoSteps /\ SameRows(result[1].df, dataset))

\* Some protected attribute takes a single value in the dataset.
HasConstantAttr ==
  \E s \in DOMAIN s_vars :
    Cardinality({dataset[p].a[s_vars[s]] : p \in DOMAIN dataset}) = 1

\* C4 amended: with stop = 0 no balancing step is taken; a call that returns,
\* returns a permutation of the input rows; a call fails exactly on a dataset
\* without rows or with a group without rows, and then with IndexError at
\* line 54 (no rows), with ZeroDivisionError at line 6, or, an attribute
\* taking a single value, with ValueError at line 43.
C4_PermutationWhenReturned ==
  stop = 0 =>
    /\ NoSteps
    /\ Returned => (SameRows(result[1].df, dataset) /\ ~HasEmptyGroup)
    /\ Failed =>
         /\ HasEmptyGroup
         /\ \/ result[1].err = "IndexError" /\ result[1].line = 54 /\ dataset = <<>>
            \/ result[1].err = "ZeroDivisionError" /\ result[1].line = 6 /\ dataset # <<>>
            \/ /\ result[1].err = "ValueError" /\ result[1].line = 43
               /\ dataset # <<>> /\ HasConstantAttr

\* fit_transform returned under stop = 0, with the rows in another order.
C4_Witness ==
  stop = 0 /\ Returned /\ Len(dataset) >= 4 /\ result[1].df # dataset

\* C5: a call that returns has balanced 2^k x L groups, one for each pair of
\* a combination and a label value, and the returned dataset holds the rows
\* of these groups, each group once.
C5_EveryGroupOnce ==
  Returned =>
    /\ Len(hist) = Cardinality(Combos) * Cardinality(LabelSet)
    /\ {<<hist[j].path, hist[j].l>> : j \in DOMAIN hist} = Combos \X LabelSet
    /\ SameRows(result[1].df, Concat([j \in DOMAIN hist |-> hist[j].df]))

\* A call on two attributes returned, one of its eight groups resampled.
C5_Witness ==
  /\ Returned
  /\ Len(s_vars) = 2
  /\ Len(hist) = 8
  /\ \E j \in DOMAIN hist : hist[j].i >= 1

\* C6: every row of a balanced group, and so of the returned dataset, is a
\* row of the input, in every column, and is in the group of that input row.
C6_RowsOfTheInput ==
  /\ \A j \in DOMAIN hist :
       \A r \in Range(hist[j].df) :
         r \in Range(dataset) /\ r.a = hist[j].path /\ r.y = hist[j].l
  /\ bal # <<>> => Range(bal[1].df) \subseteq Range(dataset)
  /\ Returned => Range(result[1].df) \subseteq Range(dataset)

\* The returned dataset holds some row twice: a row an oversample step copied.
C6_Witness ==
  /\ Returned
  /\ \E p, q \in DOMAIN result[1].df : p # q /\ result[1].df[p] = result[1].df[q]

\* C7: every pass of the balance_set loop changes the number of rows of the
\* group by exactly one.
C7_StepByOne ==
  [][(bal # <<>> /\ bal' # <<>> /\ bal'[1].i = bal[1].i + 1) =>
       (Len(bal'[1].df) - Len(bal[1].df)) \in {-1, 1}]_vars

\* C8: after a fit_transform call that returns, DEMV.disparities holds one
\* trace for each of the 2^k x L balanced groups, as balance_set returned it.
C8_OneTracePerGroup ==
  Returned =>
    /\ disparities # <<>>
    /\ disparities[1] = [j \in DOMAIN hist |-> hist[j].disparity]

\* The entries of log of the calls that returned.
Successes == {j \in DOMAIN log : log[j].kind = "ok"}

\* C9: get_iters() returns DEMV.iter, and DEMV.iter is 0 before the first
\* call that returns and after it the largest number of steps a balance_set
\* call took in the last fit_transform call that returned, whatever the calls
\* before took.
C9_ItersOfLastCall ==
  iter = IF Successes = {} THEN 0
         ELSE log[CHOOSE j \in Successes : \A q \in Successes : q <= j].steps

\* Two calls returned, the first with a group of 2 steps, the second with
\* no step at all.
C9_Witness ==
  /\ Len(log) = 2
  /\ log[1].kind = "ok" /\ log[1].steps = 2
  /\ log[2].kind = "ok" /\ log[2].steps = 0
  /\ stack = <<>>

\* C10: two calls with the same dataset, attributes, label, tolerance and
\* cap, the generator seeded alike before each, return the same dataset,
\* row by row.
C10_SameSeedSameOutput ==
  (calls = 2 /\ rng.seeded /\ result # <<>>) => result = first

\* The second of two seeded calls returned, after drawing rows for at least
\* two steps, a dataset with a copied row.
C10_Witness ==
  /\ calls = 2 /\ rng.seeded /\ Returned
  /\ rng.pos >= 2
  /\ \E p, q \in DOMAIN result[1].df : p # q /\ result[1].df[p] = result[1].df[q]


\* Some protected attribute of the dataset takes more than two values.
WideAttr ==
  \E s \in DOMAIN s_vars :
    Cardinality({dataset[p].a[s_vars[s]] : p \in DOMAIN dataset}) > 2

\* C11: a call on a dataset with a protected attribute of more than two
\* values is rejected with UnsupportedCardinalityError before any group is
\* balanced.
C11_RejectedUpFront ==
  (calls > 0 /\ WideAttr) =>
    /\ hist = <<>>
    /\ bal = <<>>
    /\ result # <<>> => (Failed /\ result[1].err = "UnsupportedCardinalityError")

\* A leaf invocation is about to balance a group that has no row, of a
\* combination that has rows: w_exp > 0 and w_obs = 0.
EmptyGroupNext ==
  /\ stack # <<>>
  /\ Top.pc = "leaf"
  /\ bal = <<>>
  /\ Top.li <= Len(Labels(dataset))
  /\ Top.mask # {}
  /\ \A p \in Top.mask : dataset[p].y # Labels(dataset)[Top.li]

\* C12: balancing a group without rows, of a combination that has rows, ends
\* in EmptyGroupError, raised where the row to copy is drawn (line 11).
C12_EmptyGroupError ==
  [][EmptyGroupNext =>
       /\ result' # <<>>
       /\ result'[1].kind = "error"
       /\ result'[1].err = "EmptyGroupError"
       /\ result'[1].line = 11]_vars

\* C13: a fit_transform call in which an error occurs returns no dataset, and
\* DEMV.iter and DEMV.disparities keep the values they had before the call:
\* no step of a call other than its return changes them.
C13_FailsAtomically ==
  [][(result' = <<>> \/ result'[1].kind = "error") =>
       /\ UNCHANGED <<iter, disparities>>
       /\ result' # <<>> => result'[1].df = <<>>]_vars

\* The second call on a DEMV instance failed after it had balanced a group,
\* and DEMV.iter is still the count of the first call, which returned.
C13_Witness ==
  /\ Failed
  /\ Len(log) = 2
  /\ log[1].kind = "ok" /\ log[1].steps >= 1
  /\ hist # <<>>
  /\ iter = log[1].steps
  /\ disparities # <<>>

\* C14: a call on a dataset without rows fails before sample makes its first
\* recursive call and before any group is balanced.
C14_FailsBeforeRecursion ==
  (calls > 0 /\ dataset = <<>>) =>
    /\ Len(stack) <= 1
    /\ hist = <<>> /\ bal = <<>>
    /\ result # <<>> => Failed

\* The weights of a group of the combination path and the label l, counted
\* on the dataset d.
CountedWExp(d, path, l) ==
  [ca |-> Cardinality({p \in DOMAIN d : d[p].a = path}),
   cl |-> Cardinality({p \in DOMAIN d : d[p].y = l}),
   n |-> Len(d)]

\* The weights of every group balanced in this call, and of the group being
\* balanced, are those counted on the dataset as it was passed.
WeightsOfInput ==
  /\ \A j \in DOMAIN hist :
       hist[j].w_exp = CountedWExp(dataset, hist[j].path, hist[j].l)
  /\ bal # <<>> =>
       /\ bal[1].w_exp = CountedWExp(dataset, Top.path, bal[1].l)
       /\ bal[1].w_obs = [g |-> Len(bal[1].df), n |-> Len(dataset)]

\* C15: no step of a call changes the dataset that was passed, whether the
\* call returns or fails, and the weights of every group are computed from
\* the counts of that dataset, not from the groups rebalanced before.
C15_InputKept ==
  [][/\ calls' = calls => dataset' = dataset
     /\ WeightsOfInput']_vars

\* A call returned in which a group was balanced after another group had
\* been resampled.
C15_Witness ==
  /\ Returned
  /\ \E j, q \in DOMAIN hist :
       j < q /\ hist[j].i >= 1 /\ Len(hist[j].df) # hist[j].w_exp.ca

\* balance_set is at work on the cell (A = 1, Y = 1).
ExampleCell == bal # <<>> /\ Top.path = <<1>> /\ bal[1].l = 1

\* C16 as stated: in the example the cell (A = 1, Y = 1) has the expected
\* weight 0.18 and the observed weight 0.1, its first disparity is 1.8, and it
\* is only oversampled from then on.
C16_ExampleCellAsStated ==
  ExampleCell =>
    /\ 100 * bal[1].w_exp.ca * bal[1].w_exp.cl = 18 * bal[1].w_exp.n * bal[1].w_exp.n
    /\ bal[1].disparity[1] = <<9, 5>>
    /\ Len(bal[1].df) = 1 + bal[1].i

\* C16 amended: the cell (A = 1, Y = 1) has the expected weight
\* 0.4 * 0.4 = 0.16 and the observed weight 0.1, so its first disparity is
\* 1.6 > 1, and the first step taken on it is an oversample, to 2 rows and
\* the disparity 0.8.
C16_ExampleCell ==
  ExampleCell =>
    /\ bal[1].w_exp = [ca |-> 4, cl |-> 4, n |-> 10]
    /\ bal[1].disparity[1] = <<8, 5>>
    /\ bal[1].i = 0 => (Len(bal[1].df) = 1 /\ bal[1].w_obs = [g |-> 1, n |-> 10])
    /\ bal[1].i >= 1 => bal[1].disparity[2] = <<4, 5>>
    /\ bal[1].i = 1 => (Len(bal[1].df) = 2 /\ bal[1].df[1] = bal[1].df[2])

\* The cell (A = 1, Y = 1) of the example after its first step, under a cap
\* that allows a second one and the tolerance 2.
C16_Witness ==
  /\ dataset = Example.d
  /\ ExampleCell
  /\ bal[1].i = 1
  /\ stop = 2
  /\ round_level = <<2>>

\* The ratio w_exp / w_obs of a running balance_set is above 1, below 1.
Above(b) == RatioNum(b.w_exp, b.w_obs) > RatioDen(b.w_exp, b.w_obs)

Below(b) == RatioNum(b.w_exp, b.w_obs) < RatioDen(b.w_exp, b.w_obs)

\* C17: between two consecutive steps of one balance_set call the ratio
\* w_exp / w_obs never crosses 1, so a call that starts with an oversample
\* only oversamples and a call that starts with an undersample only
\* undersamples.
C17_NoOvershoot ==
  [][(bal # <<>> /\ bal' # <<>> /\ bal'[1].i = bal[1].i + 1) =>
       /\ Above(bal[1]) => ~Below(bal'[1])
       /\ Below(bal[1]) => ~Above(bal'[1])]_vars

\* C18: with a tolerance of d >= 0 decimal places, d = 0 included, every
\* disparity balance_set compares with 1 is w_exp / w_obs rounded to d places.
C18_RoundedWhenSet ==
  (bal # <<>> /\ round_level # <<>>) =>
    bal[1].disp = Round(bal[1].w_exp, bal[1].w_obs, round_level[1])

\* The rows of the DataFrame df in the cell of the combination c and the label l.
CellRows(df, c, l) == Cardinality({p \in DOMAIN df : df[p].a = c /\ df[p].y = l})

\* C19: with no tolerance and the cap -1, a call that returns, returns a
\* dataset in which every cell (c, l) has count(c) * count(l) / N rows, the
\* counts taken on the input of N rows, and which has N rows in all.
C19_IndependentCells ==
  (Returned /\ round_level = <<>> /\ stop = -1) =>
    /\ \A c \in Combos, l \in LabelSet :
         Len(dataset) * CellRows(result[1].df, c, l) =
           Cardinality({p \in DOMAIN dataset : dataset[p].a = c})
             * Cardinality({p \in DOMAIN dataset : dataset[p].y = l})
    /\ Len(result[1].df) = Len(dataset)

\* A call with no tolerance and no cap returned a dataset in which a cell
\* has more rows and another cell fewer rows than in the input.
C19_Witness ==
  /\ Returned /\ round_level = <<>> /\ stop = -1
  /\ \E c \in Combos, l \in LabelSet : CellRows(result[1].df, c, l) > CellRows(dataset, c, l)
  /\ \E c \in Combos, l \in LabelSet : CellRows(result[1].df, c, l) < CellRows(dataset, c, l)

\* C20: a group that has rows when balance_set starts on it never gets to
\* zero rows, so the division by the recomputed w_obs (line 16) never fails.
C20_NeverEmptied ==
  ~(Failed /\ result[1].err = "ZeroDivisionError" /\ result[1].line = 16)

====
